---- MODULE Spec2Model ----
(***************************************************************************)
(* Model of paperless_email_processor (src/main.py): main() runs            *)
(* process_folder over four drop folders; every regular file of a folder's  *)
(* snapshot is handed to the processors bound to the folder, a failure      *)
(* notification is mailed per failing processor, and a file whose           *)
(* processors all succeeded is renamed into MAIN_PATH/done/<folder>/.       *)
(* The environment (other programs writing to the drop folders, the HTTP    *)
(* and SMTP servers, the filesystem) is nondeterministic.                   *)
(***************************************************************************)
EXTENDS Integers, Sequences, FiniteSets, TLC

(* ------------------------------ bounds -------------------------------- *)

\* how many times the environment changes a drop folder (a file dropped,
\* a file deleted, a subdirectory made)
MaxEnv == 2
\* how many times main() is run (one run is one poll cycle)
MaxCycles == 2

(* --------------------------- the file system --------------------------- *)

\* the file names the environment uses, a folder's first free one first
\* (the program treats all names alike)
NameOrder == <<"a.pdf", "b.pdf">>

Names == {NameOrder[i] : i \in 1..Len(NameOrder)}

\* what a directory entry is: nothing, a subdirectory, or a regular file
\* with its bytes; the k-th change of the environment writes bytes k
None == <<"none", 0>>
Dir == <<"dir", 0>>
File(k) == <<"file", k>>
Contents == {File(k) : k \in 1..MaxEnv}
Entries == {None, Dir} \cup Contents

NoFile == "-"

(* ------------------------------- main ---------------------------------- *)

\* the folders of main(), in the order of its process_folder calls
FolderOrder == <<"to_paperless", "to_bookkeeping", "to_both", "to_bookkeeper">>

NumFolders == Len(FolderOrder)

Folders == {FolderOrder[i] : i \in 1..NumFolders}

\* the processors main() constructs
ProcKind ==
  [paperless_processor |-> "upload",
   bookkeeping_processor |-> "email",
   to_person_processor |-> "email"]

\* processors=[...] of each process_folder call of main()
Bindings ==
  [to_paperless |-> <<"paperless_processor">>,
   to_bookkeeping |-> <<"bookkeeping_processor">>,
   to_both |-> <<"paperless_processor", "bookkeeping_processor">>,
   to_bookkeeper |-> <<"to_person_processor">>]

Paths == Folders \X Names

\* filepath.parent.name and filepath.name of a path given as its segments
ParentName(path) == path[Len(path) - 1]

FileName(path) == path[Len(path)]

\* Path.is_file(): a regular file that exists
IsFile(entry) == entry[1] = "file"

(* ------------------------- the outside world --------------------------- *)

\* what requests.post can do: answer with a status code, or raise
Response(code) == [exc |-> "none", status |-> code]

Raises(name) == [exc |-> name, status |-> 0]

UploadOutcomes ==
  {Response(200), Response(201), Response(401), Response(500),
   Raises("ConnectionError"), Raises("MaxRetryError"),
   Raises("NameResolutionError"), Raises("ReadTimeout")}

\* what send_email can do: return, or raise some exception
SmtpOutcomes ==
  {Raises("none"), Raises("SMTPAuthenticationError"),
   Raises("SMTPException"), Raises("ConnectionRefusedError")}

Outcomes(kind) == IF kind = "upload" THEN UploadOutcomes ELSE SmtpOutcomes

(* ----------------------------- processors ------------------------------ *)

Returned(b, line) == [raised |-> FALSE, exc |-> "none", result |-> b, log |-> line]

Raised(name) == [raised |-> TRUE, exc |-> name, result |-> FALSE, log |-> "none"]

\* the except clauses of PaperlessAPIProcessor.process
CaughtByUpload == {"ConnectionError", "MaxRetryError", "NameResolutionError"}

\* an upload that takes every 2xx answer for a success
PaperlessProcessAny2xx(entry, outcome) ==
  IF ~IsFile(entry) THEN Raised("FileNotFoundError")
  ELSE IF outcome.exc \in CaughtByUpload THEN Returned(FALSE, "error: " \o outcome.exc)
  ELSE IF outcome.exc # "none" THEN Raised(outcome.exc)
  ELSE IF outcome.status \in 200..299 THEN Returned(TRUE, "info: uploaded")
  ELSE Returned(FALSE, "error: upload failed")

\* PaperlessAPIProcessor.process(filepath): entry is what filepath names now
PaperlessProcess(entry, outcome) ==
  IF ~IsFile(entry) THEN Raised("FileNotFoundError")
  ELSE IF outcome.exc \in CaughtByUpload THEN Returned(FALSE, "error: " \o outcome.exc)
  ELSE IF outcome.exc # "none" THEN Raised(outcome.exc)
  ELSE IF outcome.status = 200 THEN Returned(TRUE, "info: uploaded")
  ELSE Returned(FALSE, "error: upload failed")

\* EmailProcessor.process(filepath)
EmailProcess(entry, outcome) ==
  IF ~IsFile(entry) THEN Raised("FileNotFoundError")
  ELSE IF outcome.exc # "none" THEN Returned(FALSE, "error: send failed")
  ELSE Returned(TRUE, "info: sent")

Process(kind, entry, outcome) ==
  IF kind = "upload" THEN PaperlessProcess(entry, outcome)
  ELSE EmailProcess(entry, outcome)

\* error_email that logs the failed send and returns
ErrorEmailSwallows(sendOk) ==
  IF sendOk THEN Returned(TRUE, "info: sent error email")
  ELSE Returned(FALSE, "error: failed to send error email")

\* error_email(subject, filename): sendOk is whether send_email returned
ErrorEmail(sendOk) ==
  IF sendOk THEN Returned(TRUE, "info: sent error email")
  ELSE [raised |-> TRUE, exc |-> "NotifyError", result |-> FALSE,
        log |-> "error: failed to send error email"]

(* --------------------------- process_folder ---------------------------- *)

\* a counter that starts from the successes of earlier runs
StartCountRemembers(earlier) == Cardinality(earlier)

\* processed = 0, for every file of every run; earlier (the processors that
\* returned True for the file in earlier runs) is not kept by the program
StartCount(earlier) == 0

\* the counter assigned instead of added to
AccumulateAssigns(processed, result) == IF result THEN 1 ELSE 0

\* processed += result
Accumulate(processed, result) == processed + (IF result THEN 1 ELSE 0)

\* a notification after every processor call
NotifyAlways(result) == TRUE

\* if not result: error_email(...)
NotifyOn(result) == ~result

\* the file moved when any processor succeeded
AnySucceeded(processed, n) == processed >= 1

\* if processed == len(processors)
AllSucceeded(processed, n) == processed = n

\* only a path with no entry is skipped
SkipsMissing(entry) == entry = None

\* if not file.is_file(): continue
Skips(entry) == ~IsFile(entry)

\* the loop over the processors left after the first one
OnlyFirst(i, n) == FALSE

\* for processor in processors: there is a processor after the i-th of n
MoreProcessors(i, n) == i < n

\* a polling loop that starts over with the first folder
RestartCalls(i) == 1

\* main(): the process_folder call that follows the i-th
NextCall(i) == i + 1

\* the loop over the directory as it is now instead of over the listing
RemainingLive(todo, live) == todo \cup live

\* for file in list(folder.iterdir()): the entries still to visit are those
\* of the listing taken at the start; live is what a fresh listing would add
Remaining(todo, live) == todo

(* ------------------------------ relocation ----------------------------- *)

\* the done directory named after the first segment of the path
DonePathTop(path) == <<"done", path[1], FileName(path)>>

\* done_dir / filepath.name, as segments below MAIN_PATH
DonePath(path) == <<"done", ParentName(path), FileName(path)>>

DonePaths == {DonePath(p) : p \in Paths}

\* done_dir = MAIN_PATH / "done" / parent, as segments below MAIN_PATH
DoneDir(path) == <<"done", ParentName(path)>>

\* d and the directories above it, below MAIN_PATH
UpTo(d) == {SubSeq(d, 1, k) : k \in 1..Len(d)}

\* mkdir that raises when the directory exists
MkdirNew(dirs, d) ==
  IF d \in dirs
  THEN [raised |-> TRUE, exc |-> "FileExistsError", dirs |-> dirs]
  ELSE [raised |-> FALSE, exc |-> "none", dirs |-> dirs \cup UpTo(d)]

\* done_dir.mkdir(parents=True, exist_ok=True): dirs are the directories
\* of the done tree that exist
Mkdir(dirs, d) == [raised |-> FALSE, exc |-> "none", dirs |-> dirs \cup UpTo(d)]

\* the file copied to its target and left where it was
SourceKept(entry) == entry

\* filepath.rename(target): what the source path holds afterwards
SourceAfterMove(entry) == None

(* ----------------------- calls checked on their own -------------------- *)

\* path segments and paths for move_to_done called with any path
Segments == {"dir1", "done", "to_paperless", "to_both", "a.pdf"}

TestPaths == UNION {[1..k -> Segments] : k \in 2..3}

\* status codes for PaperlessAPIProcessor.process
TestStatus == {200, 201, 202, 204, 301, 400, 401, 404, 500, 503}

NoArg == [fn |-> "none", path |-> <<>>, outcome |-> Raises("none")]

NoRet == [path |-> <<>>, res |-> Raised("none")]

TestCalls ==
  {[fn |-> "move_to_done", path |-> q, outcome |-> Raises("none")] : q \in TestPaths}
    \cup {[fn |-> "upload", path |-> <<>>, outcome |-> Response(c)] : c \in TestStatus}
    \cup {[fn |-> "upload", path |-> <<>>, outcome |-> o] : o \in UploadOutcomes}

(* -------------------------------- state -------------------------------- *)

VARIABLES
  src,            \* src[folder][name]: the entry of a drop folder
  done,           \* done[done path]: the entry of the done tree
  doneDirs,       \* the folders whose done/<folder> directory exists
  pc,             \* where main() is: idle, folder, iter, proc, decide, done, crashed
  fi,             \* index in FolderOrder of the process_folder call in progress
  snap,           \* snap[folder]: list(folder.iterdir()) taken in this run
  todo,           \* the entries of the snapshot the for loop has not visited
  cur,            \* file: the name of the file being dispatched
  pi,             \* index in the binding of the processor to call next
  processed,      \* the counter of process_folder
  err,            \* the exception that ended the run, when pc = "crashed"
  lastLog,        \* the last line error_email logged in this run
  results,        \* history: results[path], what the processors returned in this run
  notifications,  \* history: notifications[name], error_email calls with that filename in this run
  notifyFailed,   \* history: a send of error_email failed in this run
  moveCalls,      \* history: the paths move_to_done was called with in this run
  everOk,         \* history: <<path, i>> when processor i returned True for the file at path
  called,         \* history: called[path], the processors process was called on with it in this run
  arg,            \* a call checked on its own: the function and its argument
  ret,            \* a call checked on its own: what it gave
  cycle,          \* how many runs of main() have started
  envCount        \* how many times the environment changed a drop folder

vars ==
  <<src, done, doneDirs, pc, fi, snap, todo, cur, pi, processed, err, lastLog,
    results, notifications, notifyFailed, moveCalls, everOk, called,
    arg, ret, cycle, envCount>>

fsVars == <<src, done, doneDirs>>

loopVars == <<fi, snap, todo, cur, pi, processed>>

histVars == <<results, notifications, notifyFailed, moveCalls, everOk, called>>

callVars == <<arg, ret>>

Folder == FolderOrder[fi]

Processors == Bindings[Folder]

Listing(f) == {n \in Names : src[f][n] # None}

TypeOK ==
  /\ src \in [Folders -> [Names -> Entries]]
  /\ done \in [DonePaths -> Entries]
  /\ doneDirs \subseteq UNION {UpTo(DoneDir(p)) : p \in Paths}
  /\ pc \in {"idle", "folder", "iter", "proc", "decide", "done", "crashed"}
  /\ fi \in 1..NumFolders
  /\ snap \in [Folders -> SUBSET Names]
  /\ todo \subseteq Names
  /\ cur \in Names \cup {NoFile}
  /\ pi \in 1..2
  /\ processed \in 0..4
  /\ cycle \in 0..MaxCycles
  /\ envCount \in 0..MaxEnv
  /\ \A p \in Paths : Len(called[p]) <= Len(Bindings[p[1]])

\* the state before main() is called: empty drop folders, no done tree
InitMain ==
  /\ src = [f \in Folders |-> [n \in Names |-> None]]
  /\ done = [d \in DonePaths |-> None]
  /\ doneDirs = {}
  /\ pc = "idle"
  /\ fi = 1
  /\ snap = [f \in Folders |-> {}]
  /\ todo = {}
  /\ cur = NoFile
  /\ pi = 1
  /\ processed = 0
  /\ err = "none"
  /\ lastLog = "none"
  /\ results = [p \in Paths |-> <<>>]
  /\ notifications = [n \in Names |-> 0]
  /\ notifyFailed = FALSE
  /\ moveCalls = {}
  /\ everOk = {}
  /\ called = [p \in Paths |-> <<>>]
  /\ cycle = 0
  /\ envCount = 0

Init == InitMain /\ arg = NoArg /\ ret = NoRet

(* ------------------------------ main() --------------------------------- *)

\* a run of main() starts (the script is started once per poll cycle)
StartMain ==
  /\ pc \in {"idle", "done", "crashed"}
  /\ cycle < MaxCycles
  /\ cycle' = cycle + 1
  /\ pc' = "folder"
  /\ fi' = 1
  /\ snap' = [f \in Folders |-> {}]
  /\ todo' = {}
  /\ cur' = NoFile
  /\ pi' = 1
  /\ processed' = 0
  /\ err' = "none"
  /\ lastLog' = "none"
  /\ results' = [p \in Paths |-> <<>>]
  /\ notifications' = [n \in Names |-> 0]
  /\ notifyFailed' = FALSE
  /\ moveCalls' = {}
  /\ called' = [p \in Paths |-> <<>>]
  /\ UNCHANGED <<fsVars, everOk, envCount, callVars>>

\* process_folder: folder.mkdir(exist_ok=True); list(folder.iterdir())
ScanFolder ==
  /\ pc = "folder"
  /\ snap' = [snap EXCEPT ![Folder] = Listing(Folder)]
  /\ todo' = Listing(Folder)
  /\ pc' = "iter"
  /\ UNCHANGED <<fsVars, fi, cur, pi, processed, err, lastLog, histVars, cycle, envCount,
                 callVars>>

\* what a listing taken now would add to the loop: regular files not yet dispatched
Live == {n \in Names : IsFile(src[Folder][n]) /\ results[<<Folder, n>>] = <<>>}

Earlier(n) == {i \in 1..Len(Processors) : <<<<Folder, n>>, i>> \in everOk}

\* the for loop takes its next entry, or process_folder returns
NextFile ==
  /\ pc = "iter"
  /\ IF Remaining(todo, Live) = {}
     THEN /\ IF fi < NumFolders
             THEN fi' = NextCall(fi) /\ pc' = "folder"
             ELSE fi' = fi /\ pc' = "done"
          /\ UNCHANGED <<todo, cur, pi, processed>>
     ELSE \E n \in Remaining(todo, Live) :
          /\ todo' = todo \ {n}
          /\ IF Skips(src[Folder][n])
             THEN UNCHANGED <<pc, cur, pi, processed>>
             ELSE /\ cur' = n
                  /\ processed' = StartCount(Earlier(n))
                  /\ pi' = 1
                  /\ pc' = "proc"
          /\ fi' = fi
  /\ UNCHANGED <<fsVars, snap, err, lastLog, histVars, cycle, envCount, callVars>>

\* result = processor.process(file); processed += result;
\* if not result: error_email(...)
ProcessStep ==
  /\ pc = "proc"
  /\ \E outcome \in Outcomes(ProcKind[Processors[pi]]), sendOk \in BOOLEAN :
       LET path == <<Folder, cur>>
           r == Process(ProcKind[Processors[pi]], src[Folder][cur], outcome)
           e == ErrorEmail(sendOk)
           notify == ~r.raised /\ NotifyOn(r.result)
       IN /\ IF r.raised
             THEN /\ pc' = "crashed"
                  /\ err' = r.exc
                  /\ UNCHANGED <<pi, processed, results, everOk>>
             ELSE /\ results' = [results EXCEPT ![path] = Append(@, r.result)]
                  /\ processed' = Accumulate(processed, r.result)
                  /\ everOk' = IF r.result THEN everOk \cup {<<path, pi>>} ELSE everOk
                  /\ IF notify /\ e.raised
                     THEN pc' = "crashed" /\ err' = e.exc /\ pi' = pi
                     ELSE /\ err' = err
                          /\ IF MoreProcessors(pi, Len(Processors))
                             THEN pi' = pi + 1 /\ pc' = "proc"
                             ELSE pi' = pi /\ pc' = "decide"
          /\ IF notify
             THEN /\ notifications' = [notifications EXCEPT ![cur] = @ + 1]
                  /\ notifyFailed' = (notifyFailed \/ ~sendOk)
                  /\ lastLog' = e.log
             ELSE UNCHANGED <<notifications, notifyFailed, lastLog>>
          /\ called' = [called EXCEPT ![path] = Append(@, Processors[pi])]
  /\ UNCHANGED <<fsVars, fi, snap, todo, cur, moveCalls, cycle, envCount,
                 callVars>>

\* if processed == len(processors): move_to_done(file); the loop goes on
\* (processed and the processor index are dead until the next file sets them)
Decide ==
  /\ pc = "decide"
  /\ IF AllSucceeded(processed, Len(Processors))
     THEN \E renameOk \in BOOLEAN :
          LET path == <<Folder, cur>>
              entry == src[Folder][cur]
              m == Mkdir(doneDirs, DoneDir(path))
          IN /\ moveCalls' = moveCalls \cup {path}
             /\ doneDirs' = m.dirs
             /\ IF m.raised
                THEN /\ pc' = "crashed" /\ err' = m.exc
                     /\ UNCHANGED <<src, done, cur, pi, processed, everOk>>
                ELSE IF entry = None
                THEN /\ pc' = "crashed" /\ err' = "FileNotFoundError"
                     /\ UNCHANGED <<src, done, cur, pi, processed, everOk>>
                ELSE IF ~renameOk
                THEN /\ pc' = "crashed" /\ err' = "OSError"
                     /\ UNCHANGED <<src, done, cur, pi, processed, everOk>>
                ELSE /\ src' = [src EXCEPT ![Folder][cur] = SourceAfterMove(entry)]
                     /\ done' = [done EXCEPT ![DonePath(path)] = entry]
                     /\ everOk' = {x \in everOk : x[1] # path}
                     /\ pc' = "iter" /\ cur' = NoFile /\ err' = err
                     /\ pi' = 1 /\ processed' = 0
     ELSE /\ pc' = "iter" /\ cur' = NoFile
          /\ pi' = 1 /\ processed' = 0
          /\ UNCHANGED <<fsVars, err, moveCalls, everOk>>
  /\ UNCHANGED <<fi, snap, todo, lastLog, results, notifications,
                 notifyFailed, called, cycle, envCount, callVars>>

(* --------------------------- the environment --------------------------- *)

\* the environment acts while a run of main() is under way or still to come
EnvMayAct == envCount < MaxEnv /\ (pc \in {"done", "crashed"} => cycle < MaxCycles)

\* another program drops a file into a folder, or makes a subdirectory
EnvAdd ==
  /\ EnvMayAct
  /\ \E f \in Folders, i \in 1..Len(NameOrder), e \in {File(envCount + 1), Dir} :
       LET n == NameOrder[i]
       IN /\ src[f][n] = None
          /\ \A j \in 1..(i - 1) : src[f][NameOrder[j]] # None
          /\ src' = [src EXCEPT ![f][n] = e]
  /\ envCount' = envCount + 1
  /\ UNCHANGED <<done, doneDirs, pc, loopVars, err, lastLog, histVars, cycle, callVars>>

\* a file is deleted from a folder by hand
EnvRemove ==
  /\ EnvMayAct
  /\ \E f \in Folders, n \in Names :
       /\ IsFile(src[f][n])
       /\ src' = [src EXCEPT ![f][n] = None]
       /\ everOk' = {x \in everOk : x[1] # <<f, n>>}
  /\ envCount' = envCount + 1
  /\ UNCHANGED <<done, doneDirs, pc, loopVars, err, lastLog, results, notifications,
                 notifyFailed, moveCalls, called, cycle, callVars>>

Next ==
  \/ StartMain
  \/ ScanFolder
  \/ NextFile
  \/ ProcessStep
  \/ Decide
  \/ EnvAdd
  \/ EnvRemove

Spec == Init /\ [][Next]_vars

(* ----------------------- calls checked on their own -------------------- *)

\* one call of move_to_done (its target) or of PaperlessAPIProcessor.process
\* (on a file that exists), with an argument drawn from TestCalls
CallInit == InitMain /\ arg \in TestCalls /\ ret = NoRet

MoveCall ==
  /\ arg.fn = "move_to_done" /\ ret = NoRet
  /\ ret' = [path |-> DonePath(arg.path), res |-> Returned(TRUE, "info: moved")]
  /\ UNCHANGED <<fsVars, pc, loopVars, err, lastLog, histVars, cycle, envCount, arg>>

UploadCall ==
  /\ arg.fn = "upload" /\ ret = NoRet
  /\ ret' = [path |-> <<>>, res |-> PaperlessProcess(File(1), arg.outcome)]
  /\ UNCHANGED <<fsVars, pc, loopVars, err, lastLog, histVars, cycle, envCount, arg>>

CallNext == MoveCall \/ UploadCall

CallSpec == CallInit /\ [][CallNext]_vars

(* ------------------------- reading the history ------------------------- *)

AllTrue(rs) == \A i \in 1..Len(rs) : rs[i]

CountFalse(rs) == Cardinality({i \in 1..Len(rs) : ~rs[i]})

HasFailure(rs) == CountFalse(rs) > 0

\* every processor bound to the path's folder has returned for it in this run
AllReturned(p) == Len(results[p]) = Len(Bindings[p[1]])

At(fs, p) == fs[p[1]][p[2]]

\* the file at p is between its is_file check and the end of its loop body,
\* or the run ended there
Dispatching(p) == pc \in {"proc", "decide", "crashed"} /\ p = <<Folder, cur>>

\* the for loop of this run is through with the entry p of its snapshot
DispatchDone(p) ==
  /\ p[2] \in snap[p[1]]
  /\ p[1] = Folder => p[2] \notin todo
  /\ ~Dispatching(p)

\* how many processor calls of this run returned False for a file named n,
\* in the first k folders of main()
RECURSIVE FailuresNamed(_, _)
FailuresNamed(n, k) ==
  IF k = 0 THEN 0
  ELSE CountFalse(results[<<FolderOrder[k], n>>]) + FailuresNamed(n, k - 1)

(* ------------------------------ the claims ----------------------------- *)

\* C1: when the loop of process_folder finishes a file for which every
\* processor of the binding (one or several) returned True in this run, and
\* the path still holds a regular file (nobody deleted it meanwhile), the
\* file is at MAIN_PATH/done/<folder>/<name> with its bytes and its original
\* path is empty.
C1_AllSuccessRelocates ==
  [][\A p \in Paths :
       (/\ ~DispatchDone(p) /\ DispatchDone(p)'
        /\ AllReturned(p) /\ AllTrue(results[p])
        /\ IsFile(At(src, p)))
         => /\ At(src', p) = None
            /\ IsFile(done'[DonePath(p)])
            /\ done'[DonePath(p)] = At(src, p)]_vars

\* a file of to_both (two processors) and a file of to_paperless (one) relocated
C1_Witness ==
  \E n, m \in Names :
    LET p == <<"to_both", n>>
        q == <<"to_paperless", m>>
    IN /\ DispatchDone(p) /\ results[p] = <<TRUE, TRUE>>
       /\ DispatchDone(q) /\ results[q] = <<TRUE>>
       /\ IsFile(done[DonePath(p)]) /\ At(src, p) = None
       /\ IsFile(done[DonePath(q)]) /\ At(src, q) = None

\* C2: no step of the program moves or removes a file for which a processor
\* returned False in this run, nor writes its done path, nor calls
\* move_to_done with it, whatever the other processors returned.
C2_FailureLeavesFile ==
  [][envCount' = envCount =>
       \A p \in Paths :
         HasFailure(results'[p])
           => /\ At(src', p) = At(src, p)
              /\ done'[DonePath(p)] = done[DonePath(p)]
              /\ p \notin moveCalls']_vars

\* the upload succeeded, the email failed, the loop is through with the file
C2_Witness ==
  \E n \in Names :
    LET p == <<"to_both", n>>
    IN /\ DispatchDone(p) /\ results[p] = <<TRUE, FALSE>>
       /\ IsFile(At(src, p)) /\ p \notin moveCalls /\ done[DonePath(p)] = None

\* C3: in every run the number of error_email calls carrying a file name
\* equals the number of processor calls that returned False for files of that
\* name: one per failing processor, none when all succeeded.
C3_OneNotificationPerFailure ==
  \A n \in Names : notifications[n] = FailuresNamed(n, NumFolders)

\* both processors of to_both failed for one file: two notifications
C3_Witness ==
  \E n \in Names :
    /\ results[<<"to_both", n>>] = <<FALSE, FALSE>>
    /\ notifications[n] = 2
    /\ DispatchDone(<<"to_both", n>>)

\* C4: a run calls move_to_done for a file only when every bound processor
\* returned True for it in that same run, and a file the loop is through with
\* was handed to every bound processor, also to those that returned True for
\* it in an earlier run.
C4_NoSuccessMemory ==
  \A p \in Paths :
    /\ p \in moveCalls => (AllReturned(p) /\ AllTrue(results[p]))
    /\ (DispatchDone(p) /\ results[p] # <<>>) => AllReturned(p)

\* the upload succeeded in run 1 only, the email in run 2 only: not relocated
C4_Witness ==
  \E n \in Names :
    LET p == <<"to_both", n>>
    IN /\ cycle = 2 /\ DispatchDone(p)
       /\ <<p, 1>> \in everOk
       /\ results[p] = <<FALSE, TRUE>>
       /\ IsFile(At(src, p)) /\ p \notin moveCalls /\ done[DonePath(p)] = None

\* the transport and protocol failures of the two processors
TransportFailures == {o.exc : o \in UploadOutcomes \cup SmtpOutcomes} \ {"none"}

\* C5: no transport or protocol failure ends a run of main(): process
\* returns False for it.
C5_NoExceptionEscapesProcess == ~(pc = "crashed" /\ err \in TransportFailures)

\* C6: when a send of error_email failed, the run still hands the file to its
\* remaining processors and dispatches the remaining files and folders.
C6_NotifyFailureDoesNotAbort ==
  (notifyFailed /\ pc \in {"done", "crashed"})
    => /\ fi = NumFolders
       /\ todo = {}
       /\ cur # NoFile => AllReturned(<<Folder, cur>>)

\* C7: error_email logs a failed send and raises to process_folder, which
\* ends the run; after a send that succeeded it has logged that and the run
\* has not ended by it.
C7_ErrorEmailReraises ==
  /\ notifyFailed <=> (pc = "crashed" /\ err = "NotifyError")
  /\ notifyFailed => lastLog = "error: failed to send error email"
  /\ (~notifyFailed /\ lastLog # "none") => lastLog = "info: sent error email"

\* a notification could not be sent and the run ended with files left
C7_Witness ==
  /\ notifyFailed /\ pc = "crashed" /\ todo # {}
  /\ notifications[cur] = 1

\* C8: a rename that fails with a filesystem error leaves no regular file of
\* the folder's snapshot undispatched.
C8_RenameErrorConfined ==
  (pc = "crashed" /\ err = "OSError")
    => \A n \in todo : ~IsFile(src[Folder][n])

\* C9: a file removed between the snapshot and the end of its dispatch never
\* ends the run.
C9_RemovedFileNeverCrashes == ~(pc = "crashed" /\ err = "FileNotFoundError")

\* C10: every file handed to a processor in a run is in the listing taken
\* when process_folder started on its folder in that run, and the loop visits
\* entries of that listing only.
C10_DispatchedWithinSnapshot ==
  /\ \A p \in Paths : results[p] # <<>> => p[2] \in snap[p[1]]
  /\ pc \in {"iter", "proc", "decide"} => todo \subseteq snap[Folder]
  /\ pc \in {"proc", "decide"} => cur \in snap[Folder]

\* a file arrived in the folder while another file of it was being dispatched
C10_Witness ==
  /\ pc \in {"proc", "decide"}
  /\ \E n \in Names :
       /\ n \notin snap[Folder]
       /\ IsFile(src[Folder][n])
       /\ results[<<Folder, n>>] = <<>>

\* C11: an entry that is not a regular file when the loop comes to it is
\* passed to no processor, causes no notification and is not moved: the loop
\* goes on to its next entry and nothing else changes.
C11_NonFilesSkipped ==
  [][\A p \in Paths :
       (/\ pc = "iter" /\ p[1] = Folder
        /\ p[2] \in todo /\ p[2] \notin todo'
        /\ ~IsFile(At(src, p)))
         => /\ pc' = "iter" /\ cur' = NoFile
            /\ UNCHANGED <<fsVars, histVars, err>>]_vars

\* the loop is through with a subdirectory: no call, no notification, no move
C11_Witness ==
  \E p \in Paths :
    /\ At(src, p) = Dir /\ DispatchDone(p)
    /\ called[p] = <<>> /\ results[p] = <<>> /\ p \notin moveCalls
    /\ notifications[p[2]] = 0 /\ done[DonePath(p)] = None
    /\ pc = "done"

\* C12: the target move_to_done derives from a path is done/<P>/<name> with P
\* the last segment but one of the path and <name> its last, whatever the
\* segments above them.
C12_DonePathFromParent ==
  (arg.fn = "move_to_done" /\ ret # NoRet)
    => LET q == arg.path
       IN /\ Len(ret.path) = 3
          /\ ret.path[1] = "done"
          /\ ret.path[2] = q[Len(q) - 1]
          /\ ret.path[3] = q[Len(q)]

\* the path of the repository's test: dir1/to_paperless/a.pdf
C12_Witness ==
  /\ arg.path = <<"dir1", "to_paperless", "a.pdf">>
  /\ ret.path = <<"done", "to_paperless", "a.pdf">>

\* C13: when requests.post answers, process returns True exactly for status
\* 200, returns False for every other status, and raises nothing.
C13_OnlyStatus200 ==
  (arg.fn = "upload" /\ ret # NoRet /\ arg.outcome.exc = "none")
    => /\ ~ret.res.raised
       /\ ret.res.result <=> (arg.outcome.status = 200)

\* another 2xx answer gave False
C13_Witness ==
  /\ arg.fn = "upload" /\ arg.outcome = Response(201)
  /\ ret # NoRet /\ ~ret.res.raised /\ ~ret.res.result

\* C14: making the done directory never ends a run, whether it exists or
\* not, and every path move_to_done was called with, or that holds a
\* relocated file, has its done directory and the directories above it.
C14_MkdirIdempotent ==
  /\ ~(pc = "crashed" /\ err = "FileExistsError")
  /\ \A p \in Paths :
       (p \in moveCalls \/ done[DonePath(p)] # None)
         => UpTo(DoneDir(p)) \subseteq doneDirs

\* two files relocated into the same done directory, the second into the
\* directory the first one's move had made
C14_Witness ==
  \E f \in Folders :
    /\ \A n \in Names : IsFile(done[DonePath(<<f, n>>)]) /\ <<f, n>> \in moveCalls
    /\ pc = "done"

\* the i-th process_folder call of this run has taken its listing
Scanned(i) == cycle >= 1 /\ (i < fi \/ (i = fi /\ pc # "folder"))

\* C15: a process_folder call whose listing is empty calls no processor,
\* moves nothing and raises nothing, in every run.
C15_EmptyFolderNoOp ==
  \A i \in 1..NumFolders :
    LET f == FolderOrder[i]
    IN (Scanned(i) /\ snap[f] = {})
         => /\ \A n \in Names :
                 /\ called[<<f, n>>] = <<>> /\ results[<<f, n>>] = <<>>
                 /\ <<f, n>> \notin moveCalls
            /\ fi = i => (pc \in {"iter", "done"} /\ cur = NoFile /\ todo = {})

\* two runs over empty folders: the state after the second is that after the first
C15_Witness ==
  /\ cycle = 2 /\ pc = "done"
  /\ \A f \in Folders : snap[f] = {} /\ \A n \in Names : src[f][n] = None
  /\ \A n \in Names : notifications[n] = 0
  /\ moveCalls = {} /\ doneDirs = {}
  /\ \A d \in DonePaths : done[d] = None

\* C16: process is called with a file on the processors of its folder's
\* binding in their order, each at most once a run; a False from one does not
\* keep the later ones from being called; and only the file the loop is at
\* can have some of its calls still to come.
C16_SequentialInOrder ==
  \A p \in Paths :
    /\ Len(called[p]) <= Len(Bindings[p[1]])
    /\ \A i \in 1..Len(called[p]) : called[p][i] = Bindings[p[1]][i]
    /\ Len(results[p]) <= Len(called[p])
    /\ Dispatching(p) \/ called[p] = <<>> \/ Len(results[p]) = Len(Bindings[p[1]])
    /\ (pc = "proc" /\ p = <<Folder, cur>>)
         => (Len(called[p]) = pi - 1 /\ Len(results[p]) = pi - 1)
    /\ (pc = "decide" /\ p = <<Folder, cur>>) => AllReturned(p)

\* the first processor returned False, the second was called all the same,
\* and the loop is at the next file of the folder
C16_Witness ==
  \E n \in Names :
    LET p == <<"to_both", n>>
    IN /\ DispatchDone(p)
       /\ results[p] = <<FALSE, TRUE>>
       /\ called[p] = Bindings["to_both"]
       /\ pc = "proc" /\ Folder = "to_both" /\ cur # n
       /\ called[<<Folder, cur>>] = <<>>

\* what is left of a run of main(): the folders still to scan, the entries
\* of the listing still to visit, and the calls still to make for the file
\* the loop is at (a file has no more calls than main() has processors, and
\* two more steps); 0 when the run is over
CallsPerEntry == Cardinality(DOMAIN ProcKind) + 2

Rank ==
  IF pc \in {"idle", "done", "crashed"} THEN 0
  ELSE (NumFolders - fi) * (Cardinality(Names) * CallsPerEntry + 3)
       + CASE pc = "folder" -> Cardinality(Names) * CallsPerEntry + 2
           [] pc = "iter" -> Cardinality(todo) * CallsPerEntry + 1
           [] pc = "proc" -> Cardinality(todo) * CallsPerEntry + 3 + (Len(Processors) - pi)
           [] pc = "decide" -> Cardinality(todo) * CallsPerEntry + 2

Running == pc \in {"folder", "iter", "proc", "decide"}

\* C17: one run of main() is one pass that ends: the folders are to_paperless,
\* to_bookkeeping, to_both, to_bookkeeper in that order with the processors
\* [upload], [email], [upload, email], [email]; a call is made only with the
\* file the loop is at in the folder the pass is at, and the dispatch of a
\* file starts once; a run under way always has a next step, every step of it
\* leaves less to do, and a run in which nothing raised ends after the last
\* folder with nothing left to visit.
C17_OnePassThenEnd ==
  /\ [](/\ FolderOrder = <<"to_paperless", "to_bookkeeping", "to_both", "to_bookkeeper">>
        /\ [i \in 1..NumFolders |->
              [j \in 1..Len(Bindings[FolderOrder[i]]) |->
                 ProcKind[Bindings[FolderOrder[i]][j]]]]
             = <<(<<"upload">>), (<<"email">>), (<<"upload", "email">>), (<<"email">>)>>
        /\ \A p \in Paths : called[p] # <<>> => \E i \in 1..NumFolders :
                                                   FolderOrder[i] = p[1] /\ Scanned(i)
        /\ Running => ENABLED (ScanFolder \/ NextFile \/ ProcessStep \/ Decide)
        /\ pc = "done" => /\ fi = NumFolders /\ todo = {} /\ cur = NoFile
                          /\ err = "none"
        /\ pc = "crashed" => err # "none")
  /\ [][(cycle' = cycle /\ envCount' = envCount)
          => /\ Running
             /\ Rank' < Rank
             /\ fi' \in {fi, fi + 1}
             /\ \A p \in Paths :
                  called'[p] # called[p]
                    => /\ p = <<Folder, cur>>
                       /\ Len(called[p]) = pi - 1
                       /\ called'[p] = Append(called[p], Bindings[p[1]][pi])]_vars

\* a run that reached its end after dispatching files of two folders
C17_Witness ==
  /\ pc = "done" /\ cycle = 1
  /\ called[<<"to_paperless", "a.pdf">>] = <<"paperless_processor">>
  /\ called[<<"to_both", "a.pdf">>] = <<"paperless_processor", "bookkeeping_processor">>

\* a file still in its drop folder that a processor has succeeded on, in
\* this run or in an earlier one
KnownPending(p) ==
  IsFile(At(src, p)) /\ \E i \in 1..Len(Bindings[p[1]]) : <<p, i>> \in everOk

\* C18: a file that stays in its drop folder is dispatched again in every
\* run of main() until it reaches the done tree: when a run is over, every
\* file still in place that was dispatched before has been dispatched in
\* this run.
C18_RedispatchedEveryCycle ==
  pc \in {"done", "crashed"}
    => \A p \in Paths : KnownPending(p) => called[p] # <<>>

\* the same for the runs that reach the end of main()
C18_CompletedRunRedispatches ==
  pc = "done" => \A p \in Paths : KnownPending(p) => called[p] # <<>>

\* C19: a file in the done tree is out of the program's reach: the done tree
\* is none of the folders main() scans, and a relocated file is at no path of
\* a drop folder any more (it was moved, not copied), so no later run hands
\* it to a processor, notifies about it or moves it.
C19_DoneIsTerminal ==
  /\ \A i \in 1..NumFolders : FolderOrder[i] # "done"
  /\ \A d \in DonePaths : d[1] = "done" /\ d[1] \notin Folders
  /\ \A d \in DonePaths, p \in Paths : IsFile(done[d]) => At(src, p) # done[d]
  /\ \A d \in DonePaths :
       (IsFile(done[d]) /\ pc \in {"proc", "decide"}) => src[Folder][cur] # done[d]

\* a whole later run that did nothing, with a file relocated by an earlier
\* run in the done tree
C19_Witness ==
  /\ cycle = 2 /\ pc = "done" /\ moveCalls = {}
  /\ \A p \in Paths : called[p] = <<>>
  /\ \A n \in Names : notifications[n] = 0
  /\ IsFile(done[<<"done", "to_paperless", "a.pdf">>])

\* C20: no file is lost by relocation: a file in the done tree stays at its
\* done path with the bytes it was moved with, whatever is relocated later.
C20_RelocatedFilesKept ==
  [][\A d \in DonePaths : IsFile(done[d]) => done'[d] = done[d]]_vars

\* nothing but relocation writes the done tree, and it writes the entry it moves
C20_OnlyRelocationWrites ==
  [][\A d \in DonePaths :
       done'[d] # done[d] => /\ pc = "decide" /\ d = DonePath(<<Folder, cur>>)
                             /\ done'[d] = src[Folder][cur]]_vars


====
